---- MODULE Spec2Model ----
(***************************************************************************)
(* The main X event loop of xevent/eventloop.go: Read pulls events and     *)
(* errors off the connection into the event queue, processEventQueue       *)
(* drains the queue and runs the callbacks, mainEventLoop alternates the   *)
(* two until the connection is quitting.                                   *)
(*                                                                         *)
(* The loop is one sequential process whose position is pc.  The X server  *)
(* (Arrive, CloseConn), the user's code (Quit, RedirectKeyTo) and the      *)
(* consumer of the ping channel (PingRecv) run concurrently with it.       *)
(*                                                                         *)
(* SpecTwo starts one or two loops on one connection, with every call of   *)
(* a queue operation a step of its own.                                    *)
(***************************************************************************)
EXTENDS Integers, Sequences, FiniteSets, TLC

VARIABLES
    pc,        \* position of the loop goroutine
    queue,     \* xu.Evqueue: entries read and not yet processed
    pending,   \* entries XGB holds ready for WaitForEvent/PollForEvent
    closed,    \* the connection was closed: WaitForEvent yields (nil, nil)
    quit,      \* what Quitting(xu) answers
    redirect,  \* what RedirectKeyGet(xu) answers
    usePing,   \* the loop was started by MainPing (ping # nil)
    lastTime,  \* the time stored by xu.TimeSet
    e,         \* the entry dequeued by the current drain iteration
    laste,     \* the local 'laste' of the MotionNotify case
    block,     \* the 'block' argument of the running Read call
    reading,   \* history: "idle", or the Read call is "running" or "returned"
    polls,     \* history: PollForEvent calls made by the Read call
    readQ0,    \* history: the queue when the running Read call began
    readGot,   \* history: the entries the running Read call fetched, in order
    drainQuit, \* history: Quitting(xu) when the running drain call began
    drainQ0,   \* history: the queue when the running drain call began
    drainLog0, \* history: Len(log) when the running drain call began
    arrived,   \* history: every entry the connection delivered, in order
    log,       \* history: pings received, removals, handler and callback runs
    loops,     \* SpecTwo: the number of loops started on the connection
    tpc,       \* SpecTwo: the position of each loop goroutine
    te,        \* SpecTwo: the entry each loop has dequeued
    tlaste,    \* SpecTwo: the 'laste' of each loop
    tidx,      \* SpecTwo: the index 'i' at which each loop's range loop broke
    race       \* SpecTwo: history: what went wrong on the queue, or "none"

vars == <<pc, queue, pending, closed, quit, redirect, usePing, lastTime, e,
          laste, block, reading, polls, readQ0, readGot, drainQuit, drainQ0,
          drainLog0, arrived, log, loops, tpc, te, tlaste, tidx, race>>

\* the variables of the loops of SpecTwo
tvars == <<loops, tpc, te, tlaste, tidx, race>>

----------------------------------------------------------------------------
(* Bounds *)

\* entries the connection delivers in one run of Spec
MaxArrivals == 3
\* entries the connection delivers in one run of SpecKinds
MaxKindArrivals == 1

----------------------------------------------------------------------------
(* Events, errors and queue entries *)

\* xevent.NoWindow, the target of events that name no window
NoWindow == 0

\* the window identifiers of the model: events name window 1 or 2, the
\* parent of window 1 is 2, and the root window is 7
Windows == {1, 2}
Roots == {7}

TimedKinds == {"KeyPress", "KeyRelease", "ButtonPress", "ButtonRelease",
               "MotionNotify", "EnterNotify", "LeaveNotify",
               "PropertyNotify", "SelectionClear", "SelectionRequest",
               "SelectionNotify"}

UntimedKinds == {"FocusIn", "FocusOut", "KeymapNotify", "Expose",
                 "GraphicsExposure", "NoExposure", "VisibilityNotify",
                 "CreateNotify", "DestroyNotify", "UnmapNotify", "MapNotify",
                 "MapRequest", "ReparentNotify", "ConfigureNotify",
                 "ConfigureRequest", "GravityNotify", "ResizeRequest",
                 "CirculateNotify", "CirculateRequest", "ColormapNotify",
                 "ClientMessage", "MappingNotify"}

\* the event types the type switch of processEventQueue has a case for
SupportedKinds == TimedKinds \cup UntimedKinds

\* an event type the switch has no case for, and the nil event
Unsupported == "Unsupported"
NilEvent == "nil"

\* An entry of the queue: err is the error component (0 is nil), kind the
\* dynamic type of the event component (NilEvent when it is nil), win the
\* event's own window field (Event, Window, Drawable, Owner or Requestor),
\* parent its Parent field, and the remaining fields those of the same name.
\* id is the place of the entry in the order of delivery.
Entry(id, err, kind, win, parent, root) ==
    [id |-> id, err |-> err, kind |-> kind, win |-> win, parent |-> parent,
     root |-> root, time |-> 100 + id, rootX |-> 10 + id, rootY |-> 20 + id,
     eventX |-> 30 + id, eventY |-> 40 + id]

\* the zero value of an entry: 'var laste xproto.MotionNotifyEvent'
ZeroEntry ==
    [id |-> 0, err |-> 0, kind |-> NilEvent, win |-> 0, parent |-> 0,
     root |-> 0, time |-> 0, rootX |-> 0, rootY |-> 0, eventX |-> 0,
     eventY |-> 0]

\* what the connection may deliver in Spec: <<err, kind, win, parent, root>>
Shapes ==
    { <<0, "MotionNotify", 1, 0, 7>>,
      <<0, "MotionNotify", 1, 0, 0>>,
      <<0, "MotionNotify", 2, 0, 7>>,
      <<0, "ButtonPress", 1, 0, 7>>,
      <<1, NilEvent, 0, 0, 0>>,
      <<1, "MotionNotify", 1, 0, 7>> }

\* what the connection may deliver in SpecKinds: one event of every type
KindShapes ==
    { <<0, k, 1, 2, 7>> : k \in SupportedKinds \cup {Unsupported} }
        \cup { <<1, NilEvent, 0, 0, 0>> }

IsMotion(x) == x.err = 0 /\ x.kind = "MotionNotify"

----------------------------------------------------------------------------
(* The event queue (xevent.Enqueue, Dequeue, DequeueAt, Peek, Empty) *)

Enqueue(q, x) == Append(q, x)

Empty(q) == q = <<>>

Peek(q) == q

\* Dequeue: the head entry, and the queue without it
Dequeue(q) == <<Head(q), Tail(q)>>

DequeueAt(q, i) == SubSeq(q, 1, i - 1) \o SubSeq(q, i + 1, Len(q))

----------------------------------------------------------------------------
(* History *)

\* one record of the log: op is "ping" (the consumer received a ping),
\* "deq" (Dequeue returned ev), "deqAt" (DequeueAt removed ev), "err" (the
\* error handler ran on ev's error) or "cb" (runCallbacks(xu, ev, kind,
\* target) ran).
Rec(op, kind, target, ev) ==
    [op |-> op, kind |-> kind, target |-> target, ev |-> ev]

----------------------------------------------------------------------------
(* Read *)

\* the call Read(xu, b): the history of the call starts
CallRead(b) ==
    /\ block' = b
    /\ reading' = "running"
    /\ polls' = 0
    /\ readQ0' = queue
    /\ readGot' = <<>>

\* the caller of Read goes on: the history of the call ends
ForgetRead ==
    /\ block' = FALSE
    /\ reading' = "idle"
    /\ polls' = 0
    /\ readQ0' = <<>>
    /\ readGot' = <<>>

\* the call processEventQueue(xu, ping): the history of the call starts
CallDrain ==
    /\ drainQuit' = quit
    /\ drainQ0' = queue
    /\ drainLog0' = Len(log)

\* the caller of processEventQueue goes on: the history of the call ends
ForgetDrain ==
    /\ drainQuit' = FALSE
    /\ drainQ0' = <<>>
    /\ drainLog0' = 0

\* Fetched with the entry put at the head of the queue
Fetched_Prepends(x) ==
    /\ queue' = <<x>> \o queue
    /\ pending' = Tail(pending)
    /\ readGot' = Append(readGot, x)

\* 'Enqueue(xu, ev, err)' of the entry x just fetched
Fetched(x) ==
    /\ queue' = Enqueue(queue, x)
    /\ pending' = Tail(pending)
    /\ readGot' = Append(readGot, x)

\* the blocking fetch of Read(xu, true): WaitForEvent returns when the
\* connection has an entry, or (nil, nil) when the connection is closed,
\* which is fatal
WaitForEvent ==
    /\ pc = "wait"
    /\ \/ /\ pending # <<>>
          /\ Fetched(Head(pending))
          /\ pc' = "poll"
       \/ /\ pending = <<>>
          /\ closed
          /\ pc' = "fatal"
          /\ UNCHANGED <<queue, pending, readGot>>
    /\ UNCHANGED <<closed, quit, redirect, usePing, lastTime, e, laste, block,
                   reading, polls, readQ0, drainQuit, drainQ0, drainLog0,
                   arrived, log>>
    /\ UNCHANGED tvars

\* PollForEvent with the Enqueue made before the test 'ev == nil && err ==
\* nil', so that the empty result is queued too
PollForEvent_EnqueuesNil ==
    /\ pc = "poll"
    /\ polls' = polls + 1
    /\ IF pending # <<>>
       THEN /\ Fetched(Head(pending))
            /\ pc' = "poll"
            /\ UNCHANGED <<reading, drainQuit, drainQ0, drainLog0>>
       ELSE /\ reading' = "returned"
            /\ queue' = Enqueue(queue, ZeroEntry)
            /\ IF block
               THEN pc' = "drain" /\ CallDrain
               ELSE pc' = "scan" /\ UNCHANGED <<drainQuit, drainQ0, drainLog0>>
            /\ UNCHANGED <<pending, readGot>>
    /\ UNCHANGED <<closed, quit, redirect, usePing, lastTime, e, laste, block,
                   readQ0, arrived, log>>
    /\ UNCHANGED tvars

\* one turn of the polling loop of Read: an entry is queued, or nothing is
\* left and Read returns, to mainEventLoop (which calls processEventQueue)
\* or to the MotionNotify case
PollForEvent ==
    /\ pc = "poll"
    /\ polls' = polls + 1
    /\ IF pending # <<>>
       THEN /\ Fetched(Head(pending))
            /\ pc' = "poll"
            /\ UNCHANGED <<reading, drainQuit, drainQ0, drainLog0>>
       ELSE /\ reading' = "returned"
            /\ IF block
               THEN pc' = "drain" /\ CallDrain
               ELSE pc' = "scan" /\ UNCHANGED <<drainQuit, drainQ0, drainLog0>>
            /\ UNCHANGED <<queue, pending, readGot>>
    /\ UNCHANGED <<closed, quit, redirect, usePing, lastTime, e, laste, block,
                   readQ0, arrived, log>>
    /\ UNCHANGED tvars

----------------------------------------------------------------------------
(* mainEventLoop *)

\* mainEventLoop without the test 'if Quitting(xu)'
mainEventLoop_NoQuitTest ==
    /\ pc = "main"
    /\ pc' = "wait"
    /\ CallRead(TRUE)
    /\ ForgetDrain
    /\ UNCHANGED <<queue, pending, closed, quit, redirect, usePing, lastTime,
                   e, laste, arrived, log>>
    /\ UNCHANGED tvars

\* the top of the loop of mainEventLoop: leave when quitting, else Read
mainEventLoop ==
    /\ pc = "main"
    /\ IF quit
       THEN /\ pc' = "done"
            /\ UNCHANGED <<block, reading, polls, readQ0, readGot>>
       ELSE /\ pc' = "wait"
            /\ CallRead(TRUE)
    /\ ForgetDrain
    /\ UNCHANGED <<queue, pending, closed, quit, redirect, usePing, lastTime,
                   e, laste, arrived, log>>
    /\ UNCHANGED tvars

----------------------------------------------------------------------------
(* processEventQueue *)

\* DrainLoop without the test 'if Quitting(xu)'
DrainLoop_IgnoresQuit ==
    /\ pc = "drain"
    /\ pc' = IF Empty(queue) THEN "main"
             ELSE IF usePing THEN "ping" ELSE "dequeue"
    /\ ForgetRead
    /\ UNCHANGED <<queue, pending, closed, quit, redirect, usePing, lastTime,
                   e, laste, drainQuit, drainQ0, drainLog0, arrived, log>>
    /\ UNCHANGED tvars

\* DrainLoop without the test '!Empty(xu)'
DrainLoop_NoEmptyTest ==
    /\ pc = "drain"
    /\ pc' = IF quit THEN "main"
             ELSE IF usePing THEN "ping" ELSE "dequeue"
    /\ ForgetRead
    /\ UNCHANGED <<queue, pending, closed, quit, redirect, usePing, lastTime,
                   e, laste, drainQuit, drainQ0, drainLog0, arrived, log>>
    /\ UNCHANGED tvars

\* DrainLoop with 'if !Empty(xu)' in the place of 'for !Empty(xu)': the call
\* returns after one iteration
DrainLoop_OnePass ==
    /\ pc = "drain"
    /\ pc' = IF Empty(queue) \/ quit \/ Len(log) > drainLog0 THEN "main"
             ELSE IF usePing THEN "ping" ELSE "dequeue"
    /\ ForgetRead
    /\ UNCHANGED <<queue, pending, closed, quit, redirect, usePing, lastTime,
                   e, laste, drainQuit, drainQ0, drainLog0, arrived, log>>
    /\ UNCHANGED tvars

\* the top of the loop of processEventQueue: return when the queue is empty
\* or the connection is quitting, else go on to the ping and the dequeue
DrainLoop ==
    /\ pc = "drain"
    /\ pc' = IF Empty(queue) \/ quit THEN "main"
             ELSE IF usePing THEN "ping" ELSE "dequeue"
    /\ ForgetRead
    /\ UNCHANGED <<queue, pending, closed, quit, redirect, usePing, lastTime,
                   e, laste, drainQuit, drainQ0, drainLog0, arrived, log>>
    /\ UNCHANGED tvars

\* 'ping <- struct{}{}' on the unbuffered channel: the send completes when
\* the consumer receives
PingRecv ==
    /\ pc = "ping"
    /\ log' = Append(log, Rec("ping", NilEvent, NoWindow, ZeroEntry))
    /\ pc' = "dequeue"
    /\ UNCHANGED <<queue, pending, closed, quit, redirect, usePing, lastTime,
                   e, laste, block, reading, polls, readQ0, readGot,
                   drainQuit, drainQ0, drainLog0, arrived>>
    /\ UNCHANGED tvars

\* DequeueHead with a send that does not wait for the consumer (a buffered
\* ping channel)
DequeueHead_PastPing ==
    /\ pc \in {"ping", "dequeue"}
    /\ e' = Dequeue(queue)[1]
    /\ queue' = Dequeue(queue)[2]
    /\ log' = Append(log, Rec("deq", NilEvent, NoWindow, Dequeue(queue)[1]))
    /\ pc' = "switch"
    /\ UNCHANGED <<pending, closed, quit, redirect, usePing, lastTime, laste,
                   block, reading, polls, readQ0, readGot, drainQuit, drainQ0,
                   drainLog0, arrived>>
    /\ UNCHANGED tvars

\* 'ev, err := Dequeue(xu)'
DequeueHead ==
    /\ pc = "dequeue"
    /\ e' = Dequeue(queue)[1]
    /\ queue' = Dequeue(queue)[2]
    /\ log' = Append(log, Rec("deq", NilEvent, NoWindow, Dequeue(queue)[1]))
    /\ pc' = "switch"
    /\ UNCHANGED <<pending, closed, quit, redirect, usePing, lastTime, laste,
                   block, reading, polls, readQ0, readGot, drainQuit, drainQ0,
                   drainLog0, arrived>>
    /\ UNCHANGED tvars

\* HandleError with 'return' in the place of 'continue'
HandleError_Returns ==
    /\ pc = "switch"
    /\ e.err # 0
    /\ log' = Append(log, Rec("err", NilEvent, NoWindow, e))
    /\ e' = ZeroEntry
    /\ pc' = "main"
    /\ UNCHANGED <<queue, pending, closed, quit, redirect, usePing, lastTime,
                   laste, block, reading, polls, readQ0, readGot, drainQuit,
                   drainQ0, drainLog0, arrived>>
    /\ UNCHANGED tvars

\* 'if err != nil': the error handler runs and the loop continues
HandleError ==
    /\ pc = "switch"
    /\ e.err # 0
    /\ log' = Append(log, Rec("err", NilEvent, NoWindow, e))
    /\ e' = ZeroEntry
    /\ pc' = "drain"
    /\ UNCHANGED <<queue, pending, closed, quit, redirect, usePing, lastTime,
                   laste, block, reading, polls, readQ0, readGot, drainQuit,
                   drainQ0, drainLog0, arrived>>
    /\ UNCHANGED tvars

\* KeyTarget without the redirection
KeyTarget_Own(ev, wid) == ev.win

\* the redirection of a key event: 'if wid := RedirectKeyGet(xu); wid > 0'
KeyTarget(ev, wid) == IF wid > 0 THEN wid ELSE ev.win

\* the event handed to runCallbacks: a key event has its Event field set to
\* the redirection target
Wrapped(ev, wid) ==
    IF ev.kind \in {"KeyPress", "KeyRelease"}
    THEN [ev EXCEPT !.win = KeyTarget(ev, wid)]
    ELSE ev

\* Targets without the second runCallbacks call of the request cases
Targets_SubjectOnly(ev) ==
    CASE ev.kind \in {"KeymapNotify", "MappingNotify"} -> <<NoWindow>>
      [] OTHER -> <<ev.win>>

\* the targets of the runCallbacks calls of one case of the type switch, in
\* the order of the calls; ev is the event as handed to runCallbacks
Targets(ev) ==
    CASE ev.kind \in {"MapRequest", "ConfigureRequest"} ->
            <<ev.win, ev.parent>>
      [] ev.kind \in {"KeymapNotify", "MappingNotify"} -> <<NoWindow>>
      [] OTHER -> <<ev.win>>

\* the cases of the type switch that call xu.TimeSet(e.Time)
SetsTime(kind) == kind \in TimedKinds

\* the log of the runCallbacks calls of one case
Calls(ev) ==
    [i \in 1..Len(Targets(ev)) |-> Rec("cb", ev.kind, Targets(ev)[i], ev)]

\* every case of the type switch but MotionNotify, the default case and the
\* fatal nil event
DispatchEvent ==
    /\ pc = "switch"
    /\ e.err = 0
    /\ e.kind # "MotionNotify"
    /\ LET ev == Wrapped(e, redirect) IN
       IF e.kind = NilEvent
       THEN pc' = "fatal" /\ UNCHANGED <<lastTime, log>>
       ELSE /\ pc' = "drain"
            /\ IF e.kind \in SupportedKinds
               THEN /\ lastTime' = IF SetsTime(e.kind) THEN ev.time
                                   ELSE lastTime
                    /\ log' = log \o Calls(ev)
               ELSE UNCHANGED <<lastTime, log>>
    /\ e' = ZeroEntry
    /\ UNCHANGED <<queue, pending, closed, quit, redirect, usePing, laste,
                   block, reading, polls, readQ0, readGot, drainQuit, drainQ0,
                   drainLog0, arrived>>
    /\ UNCHANGED tvars

\* MotionCase with the type switch reached though err is set
MotionCase_IgnoresErr ==
    /\ pc = "switch"
    /\ e.kind = "MotionNotify"
    /\ laste' = ZeroEntry
    /\ pc' = "sync"
    /\ UNCHANGED <<queue, pending, closed, quit, redirect, usePing, lastTime,
                   e, block, reading, polls, readQ0, readGot, drainQuit,
                   drainQ0, drainLog0, arrived, log>>
    /\ UNCHANGED tvars

\* 'case xproto.MotionNotifyEvent': laste is declared, zero
MotionCase ==
    /\ pc = "switch"
    /\ IsMotion(e)
    /\ laste' = ZeroEntry
    /\ pc' = "sync"
    /\ UNCHANGED <<queue, pending, closed, quit, redirect, usePing, lastTime,
                   e, block, reading, polls, readQ0, readGot, drainQuit,
                   drainQ0, drainLog0, arrived, log>>
    /\ UNCHANGED tvars

\* 'xu.Sync(); Read(xu, false)' at the top of the compression loop
Sync ==
    /\ pc = "sync"
    /\ CallRead(FALSE)
    /\ pc' = "poll"
    /\ UNCHANGED <<queue, pending, closed, quit, redirect, usePing, lastTime,
                   e, laste, drainQuit, drainQ0, drainLog0, arrived, log>>
    /\ UNCHANGED tvars

\* Matches without 'mn.Event == e.Event': any MotionNotify entry matches
Matches_AnyWindow(ee, ev) == ee.err = 0 /\ ee.kind = "MotionNotify"

\* 'ee.Err != nil' skips; an entry matches when its event is a MotionNotify
\* whose Event is e's
Matches(ee, ev) == ee.err = 0 /\ ee.kind = "MotionNotify" /\ ee.win = ev.win

\* the index at which 'for i, ee := range Peek(xu)' breaks, 0 when it runs
\* to the end without a match
FirstMatch(q, ev) ==
    IF \E i \in 1..Len(q) : Matches(q[i], ev)
    THEN CHOOSE i \in 1..Len(q) :
            /\ Matches(q[i], ev)
            /\ \A j \in 1..(i - 1) : ~Matches(q[j], ev)
    ELSE 0

\* Scan with the match taking the place of e ('e = mn') and not only
\* remembered in laste
Scan_TakesMatch ==
    /\ pc = "scan"
    /\ LET i == FirstMatch(Peek(queue), e) IN
       IF i > 0
       THEN /\ laste' = queue[i]
            /\ e' = queue[i]
            /\ queue' = DequeueAt(queue, i)
            /\ log' = Append(log, Rec("deqAt", NilEvent, NoWindow, queue[i]))
            /\ pc' = "sync"
       ELSE /\ pc' = "motion"
            /\ UNCHANGED <<laste, e, queue, log>>
    /\ ForgetRead
    /\ UNCHANGED <<pending, closed, quit, redirect, usePing, lastTime,
                   drainQuit, drainQ0, drainLog0, arrived>>
    /\ UNCHANGED tvars

\* Scan without 'DequeueAt(xu, i)': the match is remembered and stays in the
\* queue
Scan_KeepsMatch ==
    /\ pc = "scan"
    /\ LET i == FirstMatch(Peek(queue), e) IN
       IF i > 0
       THEN /\ laste' = queue[i]
            /\ pc' = "sync"
       ELSE /\ pc' = "motion"
            /\ UNCHANGED laste
    /\ ForgetRead
    /\ UNCHANGED <<queue, log, pending, closed, quit, redirect, usePing,
                   lastTime, e, drainQuit, drainQ0, drainLog0, arrived>>
    /\ UNCHANGED tvars

\* one scan of the compression loop: the first match is remembered in laste
\* and removed, and the loop starts over; without a match the loop ends
Scan ==
    /\ pc = "scan"
    /\ LET i == FirstMatch(Peek(queue), e) IN
       IF i > 0
       THEN /\ laste' = queue[i]
            /\ queue' = DequeueAt(queue, i)
            /\ log' = Append(log, Rec("deqAt", NilEvent, NoWindow, queue[i]))
            /\ pc' = "sync"
       ELSE /\ pc' = "motion"
            /\ UNCHANGED <<laste, queue, log>>
    /\ ForgetRead
    /\ UNCHANGED <<pending, closed, quit, redirect, usePing, lastTime, e,
                   drainQuit, drainQ0, drainLog0, arrived>>
    /\ UNCHANGED tvars

\* 'if laste.Root != 0': e takes the time and the position of laste
Compressed(ev, last) ==
    IF last.root # 0
    THEN [ev EXCEPT !.time = last.time, !.rootX = last.rootX,
                    !.rootY = last.rootY, !.eventX = last.eventX,
                    !.eventY = last.eventY]
    ELSE ev

\* the end of the MotionNotify case: TimeSet and runCallbacks
DispatchMotion ==
    /\ pc = "motion"
    /\ LET ev == Compressed(e, laste) IN
       /\ lastTime' = ev.time
       /\ log' = log \o Calls(ev)
    /\ e' = ZeroEntry
    /\ laste' = ZeroEntry
    /\ pc' = "drain"
    /\ UNCHANGED <<queue, pending, closed, quit, redirect, usePing, block,
                   reading, polls, readQ0, readGot, drainQuit, drainQ0,
                   drainLog0, arrived>>
    /\ UNCHANGED tvars

----------------------------------------------------------------------------
(* The connection, the user's code *)

\* the X server delivers one more entry of shape s; at most max in a run
Arrive(s, max) ==
    /\ Len(arrived) < max
    /\ ~closed
    /\ LET x == Entry(Len(arrived) + 1, s[1], s[2], s[3], s[4], s[5]) IN
       /\ pending' = Append(pending, x)
       /\ arrived' = Append(arrived, x)
    /\ UNCHANGED <<pc, queue, closed, quit, redirect, usePing, lastTime, e,
                   laste, block, reading, polls, readQ0, readGot, drainQuit,
                   drainQ0, drainLog0, log>>
    /\ UNCHANGED tvars

\* the connection is closed
CloseConn ==
    /\ ~closed
    /\ closed' = TRUE
    /\ UNCHANGED <<pc, queue, pending, quit, redirect, usePing, lastTime, e,
                   laste, block, reading, polls, readQ0, readGot, drainQuit,
                   drainQ0, drainLog0, arrived, log>>
    /\ UNCHANGED tvars

\* xevent.Quit(xu): from now on Quitting(xu) is true
Quit ==
    /\ ~quit
    /\ quit' = TRUE
    /\ UNCHANGED <<pc, queue, pending, closed, redirect, usePing, lastTime, e,
                   laste, block, reading, polls, readQ0, readGot, drainQuit,
                   drainQ0, drainLog0, arrived, log>>
    /\ UNCHANGED tvars

\* xevent.RedirectKeyEvents(xu, wid)
RedirectKeyEvents(wid) ==
    /\ redirect # wid
    /\ redirect' = wid
    /\ UNCHANGED <<pc, queue, pending, closed, quit, usePing, lastTime, e,
                   laste, block, reading, polls, readQ0, readGot, drainQuit,
                   drainQ0, drainLog0, arrived, log>>
    /\ UNCHANGED tvars

----------------------------------------------------------------------------
(* Specifications *)

Init ==
    /\ pc = "main"
    /\ queue = <<>>
    /\ pending = <<>>
    /\ closed = FALSE
    /\ quit = FALSE
    /\ redirect = 0
    /\ usePing \in BOOLEAN
    /\ lastTime = 0
    /\ e = ZeroEntry
    /\ laste = ZeroEntry
    /\ block = FALSE
    /\ reading = "idle"
    /\ polls = 0
    /\ readQ0 = <<>>
    /\ readGot = <<>>
    /\ drainQuit = FALSE
    /\ drainQ0 = <<>>
    /\ drainLog0 = 0
    /\ arrived = <<>>
    /\ log = <<>>
    /\ loops = 0
    /\ tpc = [p \in {1, 2} |-> "off"]
    /\ te = [p \in {1, 2} |-> ZeroEntry]
    /\ tlaste = [p \in {1, 2} |-> ZeroEntry]
    /\ tidx = [p \in {1, 2} |-> 0]
    /\ race = "none"

\* the steps of the loop goroutine
Loop ==
    \/ mainEventLoop
    \/ WaitForEvent
    \/ PollForEvent
    \/ DrainLoop
    \/ DequeueHead
    \/ HandleError
    \/ DispatchEvent
    \/ MotionCase
    \/ Sync
    \/ Scan
    \/ DispatchMotion

\* the steps of the consumer of the pings, of the connection and of the
\* user's code
Others ==
    \/ PingRecv
    \/ CloseConn
    \/ Quit

\* Spec: the runs without key redirection, over the entries of Shapes
Next ==
    \/ Loop
    \/ Others
    \/ \E s \in Shapes : Arrive(s, MaxArrivals)

Spec == Init /\ [][Next]_vars

\* SpecKinds: the runs with key redirection, over one event of every type
NextKinds ==
    \/ Loop
    \/ Others
    \/ \E wid \in {0, 2} : RedirectKeyEvents(wid)
    \/ \E s \in KindShapes : Arrive(s, MaxKindArrivals)

SpecKinds == Init /\ [][NextKinds]_vars

----------------------------------------------------------------------------
(* SpecTwo: one or two loops on one connection *)

\* entries the connection delivers in one run of SpecTwo
MaxTwoArrivals == 3

\* what the connection may deliver in SpecTwo
TwoShapes ==
    { <<0, "MotionNotify", 1, 0, 7>>,
      <<0, "ButtonPress", 1, 0, 7>>,
      <<1, NilEvent, 0, 0, 0>> }

\* the variables of the single loop of Spec, which SpecTwo leaves alone
lvars == <<pc, e, laste, block, reading, polls, readQ0, readGot, drainQuit,
           drainQ0, drainLog0, redirect, log>>

\* the loops started
Procs == 1..loops

\* 'if Quitting(xu) { break }', else Read(xu, true)
TwoMain(p) ==
    /\ tpc[p] = "main"
    /\ tpc' = [tpc EXCEPT ![p] = IF quit THEN "done" ELSE "wait"]
    /\ UNCHANGED <<queue, pending, closed, quit, usePing, lastTime, arrived,
                   loops, te, tlaste, tidx, race>>
    /\ UNCHANGED lvars

\* the blocking fetch of Read(xu, true) and its Enqueue
TwoWait(p) ==
    /\ tpc[p] = "wait"
    /\ \/ /\ pending # <<>>
          /\ queue' = Enqueue(queue, Head(pending))
          /\ pending' = Tail(pending)
          /\ tpc' = [tpc EXCEPT ![p] = "poll"]
       \/ /\ pending = <<>>
          /\ closed
          /\ tpc' = [tpc EXCEPT ![p] = "fatal"]
          /\ UNCHANGED <<queue, pending>>
    /\ UNCHANGED <<closed, quit, usePing, lastTime, arrived, loops, te,
                   tlaste, tidx, race>>
    /\ UNCHANGED lvars

\* one turn of the polling loop of Read: of Read(xu, true) at "poll", of the
\* Read(xu, false) of the MotionNotify case at "cpoll"
TwoPoll(p) ==
    /\ tpc[p] \in {"poll", "cpoll"}
    /\ IF pending # <<>>
       THEN /\ queue' = Enqueue(queue, Head(pending))
            /\ pending' = Tail(pending)
            /\ tpc' = tpc
       ELSE /\ tpc' = [tpc EXCEPT ![p] = IF tpc[p] = "poll" THEN "drain"
                                         ELSE "scan"]
            /\ UNCHANGED <<queue, pending>>
    /\ UNCHANGED <<closed, quit, usePing, lastTime, arrived, loops, te,
                   tlaste, tidx, race>>
    /\ UNCHANGED lvars

\* TwoDrain without the test '!Empty(xu)'
TwoDrain_NoEmptyTest(p) ==
    /\ tpc[p] = "drain"
    /\ tpc' = [tpc EXCEPT ![p] =
                  IF quit THEN "main"
                  ELSE IF usePing THEN "ping" ELSE "dequeue"]
    /\ UNCHANGED <<queue, pending, closed, quit, usePing, lastTime, arrived,
                   loops, te, tlaste, tidx, race>>
    /\ UNCHANGED lvars

\* the top of the loop of processEventQueue: the tests '!Empty(xu)' and
\* 'Quitting(xu)'
TwoDrain(p) ==
    /\ tpc[p] = "drain"
    /\ tpc' = [tpc EXCEPT ![p] =
                  IF Empty(queue) \/ quit THEN "main"
                  ELSE IF usePing THEN "ping" ELSE "dequeue"]
    /\ UNCHANGED <<queue, pending, closed, quit, usePing, lastTime, arrived,
                   loops, te, tlaste, tidx, race>>
    /\ UNCHANGED lvars

\* the consumer of the loop's ping channel receives
TwoPing(p) ==
    /\ tpc[p] = "ping"
    /\ tpc' = [tpc EXCEPT ![p] = "dequeue"]
    /\ UNCHANGED <<queue, pending, closed, quit, usePing, lastTime, arrived,
                   loops, te, tlaste, tidx, race>>
    /\ UNCHANGED lvars

\* 'ev, err := Dequeue(xu)'; on an empty queue Dequeue fails
TwoDequeue(p) ==
    /\ tpc[p] = "dequeue"
    /\ IF Empty(queue)
       THEN /\ race' = "empty"
            /\ tpc' = [tpc EXCEPT ![p] = "panic"]
            /\ UNCHANGED <<queue, te>>
       ELSE /\ te' = [te EXCEPT ![p] = Dequeue(queue)[1]]
            /\ queue' = Dequeue(queue)[2]
            /\ tpc' = [tpc EXCEPT ![p] = "switch"]
            /\ race' = race
    /\ UNCHANGED <<pending, closed, quit, usePing, lastTime, arrived, loops,
                   tlaste, tidx>>
    /\ UNCHANGED lvars

\* the error handler and the cases of the type switch: the MotionNotify
\* case goes on to its compression loop, a nil event is fatal, the other
\* cases set the time and run the callbacks
TwoSwitch(p) ==
    /\ tpc[p] = "switch"
    /\ IF te[p].err # 0
       THEN /\ tpc' = [tpc EXCEPT ![p] = "drain"]
            /\ te' = [te EXCEPT ![p] = ZeroEntry]
            /\ UNCHANGED <<lastTime, tlaste>>
       ELSE IF te[p].kind = "MotionNotify"
       THEN /\ tpc' = [tpc EXCEPT ![p] = "sync"]
            /\ tlaste' = [tlaste EXCEPT ![p] = ZeroEntry]
            /\ UNCHANGED <<lastTime, te>>
       ELSE IF te[p].kind = NilEvent
       THEN /\ tpc' = [tpc EXCEPT ![p] = "fatal"]
            /\ UNCHANGED <<lastTime, te, tlaste>>
       ELSE /\ tpc' = [tpc EXCEPT ![p] = "drain"]
            /\ lastTime' = IF SetsTime(te[p].kind) THEN te[p].time
                           ELSE lastTime
            /\ te' = [te EXCEPT ![p] = ZeroEntry]
            /\ UNCHANGED tlaste
    /\ UNCHANGED <<queue, pending, closed, quit, usePing, arrived, loops,
                   tidx, race>>
    /\ UNCHANGED lvars

\* 'xu.Sync()' and the call Read(xu, false)
TwoSync(p) ==
    /\ tpc[p] = "sync"
    /\ tpc' = [tpc EXCEPT ![p] = "cpoll"]
    /\ UNCHANGED <<queue, pending, closed, quit, usePing, lastTime, arrived,
                   loops, te, tlaste, tidx, race>>
    /\ UNCHANGED lvars

\* 'for i, ee := range Peek(xu)' up to 'laste = mn': the loop over the
\* snapshot finds the index of the first match, or none
TwoPeek(p) ==
    /\ tpc[p] = "scan"
    /\ LET i == FirstMatch(Peek(queue), te[p]) IN
       IF i > 0
       THEN /\ tlaste' = [tlaste EXCEPT ![p] = queue[i]]
            /\ tidx' = [tidx EXCEPT ![p] = i]
            /\ tpc' = [tpc EXCEPT ![p] = "remove"]
       ELSE /\ tpc' = [tpc EXCEPT ![p] = "motion"]
            /\ UNCHANGED <<tlaste, tidx>>
    /\ UNCHANGED <<queue, pending, closed, quit, usePing, lastTime, arrived,
                   loops, te, race>>
    /\ UNCHANGED lvars

\* 'DequeueAt(xu, i)' with the index found in the snapshot: it removes what
\* the queue holds at the index now, and fails past the end of the queue
TwoDequeueAt(p) ==
    /\ tpc[p] = "remove"
    /\ IF tidx[p] > Len(queue)
       THEN /\ race' = "range"
            /\ tpc' = [tpc EXCEPT ![p] = "panic"]
            /\ queue' = queue
       ELSE /\ queue' = DequeueAt(queue, tidx[p])
            /\ race' = IF queue[tidx[p]] # tlaste[p] THEN "index" ELSE race
            /\ tpc' = [tpc EXCEPT ![p] = "sync"]
    /\ tidx' = [tidx EXCEPT ![p] = 0]
    /\ UNCHANGED <<pending, closed, quit, usePing, lastTime, arrived, loops,
                   te, tlaste>>
    /\ UNCHANGED lvars

\* the end of the MotionNotify case: TimeSet and runCallbacks
TwoDispatchMotion(p) ==
    /\ tpc[p] = "motion"
    /\ lastTime' = Compressed(te[p], tlaste[p]).time
    /\ te' = [te EXCEPT ![p] = ZeroEntry]
    /\ tlaste' = [tlaste EXCEPT ![p] = ZeroEntry]
    /\ tpc' = [tpc EXCEPT ![p] = "drain"]
    /\ UNCHANGED <<queue, pending, closed, quit, usePing, arrived, loops,
                   tidx, race>>
    /\ UNCHANGED lvars

\* Main or MainPing is called once or twice for the connection
InitTwo ==
    /\ pc = "main"
    /\ queue = <<>>
    /\ pending = <<>>
    /\ closed = FALSE
    /\ quit = FALSE
    /\ redirect = 0
    /\ usePing \in BOOLEAN
    /\ lastTime = 0
    /\ e = ZeroEntry
    /\ laste = ZeroEntry
    /\ block = FALSE
    /\ reading = "idle"
    /\ polls = 0
    /\ readQ0 = <<>>
    /\ readGot = <<>>
    /\ drainQuit = FALSE
    /\ drainQ0 = <<>>
    /\ drainLog0 = 0
    /\ arrived = <<>>
    /\ log = <<>>
    /\ loops \in {1, 2}
    /\ tpc = [p \in {1, 2} |-> IF p <= loops THEN "main" ELSE "off"]
    /\ te = [p \in {1, 2} |-> ZeroEntry]
    /\ tlaste = [p \in {1, 2} |-> ZeroEntry]
    /\ tidx = [p \in {1, 2} |-> 0]
    /\ race = "none"

\* the steps of the loop goroutines
TwoLoop ==
    \/ \E p \in Procs : TwoMain(p)
    \/ \E p \in Procs : TwoWait(p)
    \/ \E p \in Procs : TwoPoll(p)
    \/ \E p \in Procs : TwoDrain(p)
    \/ \E p \in Procs : TwoDequeue(p)
    \/ \E p \in Procs : TwoSwitch(p)
    \/ \E p \in Procs : TwoSync(p)
    \/ \E p \in Procs : TwoPeek(p)
    \/ \E p \in Procs : TwoDequeueAt(p)
    \/ \E p \in Procs : TwoDispatchMotion(p)

\* the loops, the consumers of their pings, the connection and the user's
\* code
NextTwo ==
    \/ TwoLoop
    \/ \E p \in Procs : TwoPing(p)
    \/ CloseConn
    \/ Quit
    \/ \E s \in TwoShapes : Arrive(s, MaxTwoArrivals)

SpecTwo == InitTwo /\ [][NextTwo]_vars

----------------------------------------------------------------------------
(* SpecQuit: the log tells when the quit flag was set *)

\* entries the connection delivers in one run of SpecQuit
MaxQuitArrivals == 3

\* what the connection may deliver in SpecQuit
QuitShapes ==
    { <<0, "MotionNotify", 1, 0, 7>>,
      <<0, "ButtonPress", 1, 0, 7>>,
      <<1, NilEvent, 0, 0, 0>> }

\* xevent.Quit(xu), with a record "quit" put in the log
QuitLogged ==
    /\ ~quit
    /\ quit' = TRUE
    /\ log' = Append(log, Rec("quit", NilEvent, NoWindow, ZeroEntry))
    /\ UNCHANGED <<pc, queue, pending, closed, redirect, usePing, lastTime, e,
                   laste, block, reading, polls, readQ0, readGot, drainQuit,
                   drainQ0, drainLog0, arrived>>
    /\ UNCHANGED tvars

NextQuit ==
    \/ Loop
    \/ PingRecv
    \/ CloseConn
    \/ QuitLogged
    \/ \E s \in QuitShapes : Arrive(s, MaxQuitArrivals)

SpecQuit == Init /\ [][NextQuit]_vars

----------------------------------------------------------------------------
(* SpecFair: the loop goroutine and the consumer of the pings keep running *)

\* entries the connection delivers in one run of SpecFair
MaxFairArrivals == 2

NextFair ==
    \/ Loop
    \/ Others
    \/ \E s \in Shapes : Arrive(s, MaxFairArrivals)

\* the scheduler runs the loop goroutine whenever it can take a step (it
\* cannot while WaitForEvent has nothing to return or the ping is not
\* received), callbacks return, and the consumer of the pings keeps
\* receiving; nothing is assumed of the connection and of the user's code
SpecFair ==
    /\ Init
    /\ [][NextFair]_vars
    /\ WF_vars(Loop)
    /\ WF_vars(PingRecv)

----------------------------------------------------------------------------
(* Properties *)

Handled(r) == r.op \in {"cb", "err"}

CountOp(op) == Cardinality({j \in DOMAIN log : log[j].op = op})

\* ev has the time and the position of x
Carries(ev, x) ==
    /\ ev.time = x.time
    /\ ev.rootX = x.rootX
    /\ ev.rootY = x.rootY
    /\ ev.eventX = x.eventX
    /\ ev.eventY = x.eventY

Max(S) == CHOOSE x \in S : \A y \in S : y <= x

\* the place in the log of the head removal of the entry id
DeqIndex(id) ==
    CHOOSE i \in DOMAIN log : log[i].op = "deq" /\ log[i].ev.id = id

\* the removals by index made for the motion event dispatched at log[j]
RemovedFor(j) ==
    {k \in DOMAIN log :
        DeqIndex(log[j].ev.id) < k /\ k < j /\ log[k].op = "deqAt"}

\* a delivered entry whose event has callbacks and is no motion event
NonMotion(x) ==
    x.err = 0 /\ x.kind \in SupportedKinds \ {"MotionNotify"}

C2_Burst ==
    LET n == Len(arrived) IN
    ( /\ n >= 2
      /\ \A i \in 1..n :
            IsMotion(arrived[i]) /\ arrived[i].win = arrived[1].win
      /\ pending = <<>>
      /\ pc = "drain"
      /\ Len(log) > drainLog0
      /\ log[Len(log)].op = "cb"
      /\ CountOp("deq") = 1 )
    => /\ CountOp("cb") = 1
       /\ Carries(log[Len(log)].ev, arrived[n])
       /\ queue = <<>>

\* C3: with a ping channel, one ping is received for every entry removed
\* from the queue, by Dequeue or by DequeueAt (the ping of the next head
\* removal is received just before it), and the ping of an entry is received
\* before its handler runs.
C3_PingPerRemoval ==
    usePing =>
       /\ CountOp("ping") =
             CountOp("deq") + CountOp("deqAt")
                + (IF pc = "dequeue" THEN 1 ELSE 0)
       /\ \A j \in DOMAIN log :
             Handled(log[j]) =>
                \E i \in 1..(j - 1) :
                   /\ log[i].op = "ping"
                   /\ log[i + 1].op = "deq"
                   /\ log[i + 1].ev.id = log[j].ev.id

\* C4: an entry taken from the head with its error set has the error
\* handler run exactly once (as the step that follows the removal) and no
\* callback ever, also when it carries an event.
C4_ErrorOnly ==
    \A j \in DOMAIN log :
       (log[j].op = "deq" /\ log[j].ev.err # 0) =>
          LET id == log[j].ev.id
              errs == {i \in DOMAIN log :
                          log[i].op = "err" /\ log[i].ev.id = id}
          IN  /\ \A i \in DOMAIN log :
                    log[i].op = "cb" => log[i].ev.id # id
              /\ IF j = Len(log)
                 THEN pc = "switch" /\ e.id = id
                 ELSE errs = {j + 1}
              /\ pc # "sync" \/ e.id # id

\* C4 witness: the error handler has run for an entry that carries a motion
\* event alongside its error
C4_ErrorWithEvent ==
    \E j \in DOMAIN log :
        log[j].op = "err" /\ log[j].ev.kind = "MotionNotify"

\* C5: the step that runs the error handler continues the drain loop with
\* the rest of the queue untouched, and while the connection is not quitting
\* the loop never goes back to mainEventLoop or to its blocking read with
\* entries left in the queue.
C5_ErrorContinues ==
    /\ [][ (pc = "switch" /\ e.err # 0 /\ pc' # pc)
              => (pc' = "drain" /\ queue' = queue /\ pending' = pending) ]_vars
    /\ []( (pc \in {"main", "wait"} /\ ~quit) => queue = <<>> )

\* C5 witness: the error handler has run and a later entry has had its
\* handler run after it
C5_DispatchAfterError ==
    \E i, j \in DOMAIN log :
        /\ i < j
        /\ log[i].op = "err"
        /\ Handled(log[j])
        /\ log[j].ev.id > log[i].ev.id

\* the records the step has added to the log
Added == SubSeq(log', Len(log) + 1, Len(log'))

KeyKinds == {"KeyPress", "KeyRelease"}

ButtonKinds == {"ButtonPress", "ButtonRelease"}

RequestKinds == {"MapRequest", "ConfigureRequest"}

\* C6: the step that dispatches a key or a button event runs one callback
\* lookup: for a key event on the redirection target when RedirectKeyGet
\* answers a positive window and on the event's own window when it answers
\* 0, for a button event always on the event's own window.
C6_KeyRedirect ==
    [][ ( /\ pc = "switch"
          /\ pc' = "drain"
          /\ e.err = 0
          /\ e.kind \in KeyKinds \cup ButtonKinds )
        => /\ Len(Added) = 1
           /\ Added[1].op = "cb"
           /\ Added[1].kind = e.kind
           /\ Added[1].target =
                 IF e.kind \in KeyKinds /\ redirect > 0 THEN redirect
                 ELSE e.win
           /\ (e.kind \in KeyKinds /\ redirect > 0 /\ redirect # e.win)
                 => Added[1].target # e.win ]_vars

\* C6 witness: the callbacks of the redirection target have run for a key
\* press delivered for another window
C6_Redirected ==
    \E j \in DOMAIN log :
        /\ log[j].op = "cb"
        /\ log[j].kind = "KeyPress"
        /\ log[j].target = 2
        /\ arrived[log[j].ev.id].win = 1

\* C7: the step that dispatches a MapRequest or a ConfigureRequest runs two
\* callback lookups of its kind, on the event's Window and then on its
\* Parent; the step that dispatches an event of any other supported kind
\* runs exactly one.
C7_Lookups ==
    [][ ( /\ pc' = "drain"
          /\ \/ pc = "switch" /\ e.err = 0 /\ e.kind \in SupportedKinds
             \/ pc = "motion" )
        => /\ \A i \in DOMAIN Added :
                 Added[i].op = "cb" /\ Added[i].kind = e.kind
           /\ IF e.kind \in RequestKinds
              THEN /\ Len(Added) = 2
                   /\ Added[1].target = e.win
                   /\ Added[2].target = e.parent
              ELSE Len(Added) = 1 ]_vars

\* C7 witness: a MapRequest has had the callbacks of its window and then
\* those of its parent run
C7_BothTargets ==
    \E j \in DOMAIN log :
        /\ j < Len(log)
        /\ log[j].op = "cb" /\ log[j + 1].op = "cb"
        /\ log[j].kind = "MapRequest" /\ log[j + 1].kind = "MapRequest"
        /\ log[j].target = 1
        /\ log[j + 1].target = 2

\* C8: a call of processEventQueue that begins with the connection quitting
\* goes nowhere but back to its caller, removes nothing from the queue and
\* adds nothing (ping, removal, handler, callback) to the log.
C8_QuitBeforeDrain ==
    drainQuit =>
       /\ pc \in {"drain", "main"}
       /\ queue = drainQ0
       /\ Len(log) = drainLog0

\* C8 witness: such a call has returned and has left entries in the queue
C8_LeftQueued ==
    drainQuit /\ pc = "main" /\ queue # <<>>

\* C9: the first poll of Read(xu, false) finding nothing pending is the last
\* one: Read returns and the queue, the connection and the log are as they
\* were.
C9_ReadNothing ==
    [][ ( /\ pc = "poll"
          /\ ~block
          /\ polls = 0
          /\ pending = <<>>
          /\ (pc' # pc \/ polls' # polls \/ queue' # queue) )
        => /\ reading' = "returned"
           /\ polls' = 1
           /\ queue' = queue
           /\ queue' = readQ0'
           /\ pending' = pending
           /\ log' = log ]_vars

\* C9 witness: Read(xu, false) has returned after one poll with a queue
\* that holds entries
C9_OnePoll ==
    /\ reading = "returned"
    /\ ~block
    /\ polls = 1
    /\ queue # <<>>
    /\ queue = readQ0

\* C10: during and after a Read call the queue is the queue the call found
\* followed by the entries it fetched, which are consecutive deliveries in
\* the order of delivery; Read(xu, true) returns with at least one entry
\* fetched, and Read returns only after a poll that found nothing pending.
C10_ReadAppends ==
    /\ []( reading \in {"running", "returned"} =>
             /\ queue = readQ0 \o readGot
             /\ \A i \in 1..(Len(readGot) - 1) :
                   readGot[i + 1].id = readGot[i].id + 1
             /\ (reading = "returned" /\ block) =>
                   (Len(readGot) >= 1 /\ Len(queue) >= Len(readQ0) + 1) )
    /\ [][ (reading = "running" /\ reading' = "returned")
              => (pending = <<>> /\ pending' = <<>>) ]_vars

\* C10 witness: Read(xu, true) has returned with the entry of the blocking
\* fetch and one more
C10_TwoFetched ==
    /\ reading = "returned"
    /\ block
    /\ Len(readGot) >= 2

\* C11: the event passed to the MotionNotify callbacks has the time and the
\* position of the last entry that coalescing removed for it, whatever the
\* other fields of that entry (its root window included); when coalescing
\* removed nothing, the event is passed as it was delivered.
C11_LastReplacement ==
    \A j \in DOMAIN log :
        (log[j].op = "cb" /\ log[j].kind = "MotionNotify") =>
            IF RemovedFor(j) = {}
            THEN log[j].ev = arrived[log[j].ev.id]
            ELSE Carries(log[j].ev, log[Max(RemovedFor(j))].ev)

Min(S) == CHOOSE x \in S : \A y \in S : x <= y

\* C12: one pass of the compression loop removes at most one entry: the
\* first entry of the queue that has no error and holds a MotionNotify for
\* e's window. The entries before it and after it stay, in their order, and
\* the entry removed is the one remembered in laste; without such an entry
\* the pass leaves the queue as it is. Outside a pass the queue loses entries
\* at its head only.
C12_FirstMatchOnly ==
    [][ LET M == { i \in 1..Len(queue) :
                      /\ queue[i].err = 0
                      /\ queue[i].kind = "MotionNotify"
                      /\ queue[i].win = e.win }
        IN
        /\ (pc = "scan" /\ pc' # "scan") =>
              IF M = {}
              THEN queue' = queue /\ Added = <<>>
              ELSE /\ Len(queue') = Len(queue) - 1
                   /\ \A k \in 1..(Min(M) - 1) : queue'[k] = queue[k]
                   /\ \A k \in Min(M)..Len(queue') : queue'[k] = queue[k + 1]
                   /\ laste' = queue[Min(M)]
                   /\ Len(Added) = 1
                   /\ Added[1].op = "deqAt"
                   /\ Added[1].ev = queue[Min(M)]
        /\ (pc # "scan" /\ queue' # queue) =>
              \/ (queue # <<>> /\ queue' = Tail(queue))
              \/ /\ Len(queue') > Len(queue)
                 /\ SubSeq(queue', 1, Len(queue)) = queue ]_vars

\* C12 witness: a pass has just removed an entry from behind entries that
\* stay in the queue, one of them a MotionNotify for another window or an
\* entry with an error
C12_PastOthers ==
    /\ pc = "sync"
    /\ log # <<>>
    /\ log[Len(log)].op = "deqAt"
    /\ \E q \in DOMAIN queue :
          /\ queue[q].id < log[Len(log)].ev.id
          /\ queue[q].kind = "MotionNotify"

\* C13: a step that runs the callbacks of an event of a time-bearing type
\* leaves the last-seen timestamp at the time of the event the callbacks
\* get; for a motion event that coalescing removed entries for, that is the
\* time of the last entry removed. No other step changes the last-seen
\* timestamp: not the error handler, not the callbacks of the other types.
C13_TimeSet ==
    [][ /\ \A i \in 1..Len(Added) :
              (Added[i].op = "cb" /\ Added[i].kind \in TimedKinds)
                 => lastTime' = Added[i].ev.time
        /\ ( /\ pc = "motion"
             /\ pc' # "motion"
             /\ log # <<>>
             /\ log[Len(log)].op = "deqAt" )
              => lastTime' = log[Len(log)].ev.time
        /\ lastTime' # lastTime =>
              /\ Added # <<>>
              /\ Added[1].op = "cb"
              /\ Added[1].kind \in TimedKinds ]_vars

\* C14: processEventQueue returns to mainEventLoop only from the top of its
\* loop, with the queue empty or the quit flag set; so while the flag is not
\* set, the loop waits in the blocking read only with an empty queue and
\* with every entry fetched so far handled: its error handler or its
\* callbacks have run, or coalescing has removed it.
C14_DrainsAll ==
    /\ [][ (pc # "main" /\ pc' = "main")
              => (pc = "drain" /\ (queue = <<>> \/ quit)) ]_vars
    /\ []( (pc = "wait" /\ ~quit) =>
             /\ queue = <<>>
             /\ \A i \in 1..(Len(arrived) - Len(pending)) :
                   \E j \in DOMAIN log :
                      /\ log[j].ev.id = i
                      /\ log[j].op \in {"err", "cb", "deqAt"} )

\* C14 witness: a call of processEventQueue that found two entries or more
\* has returned with the queue empty and the quit flag not set
C14_DrainedTwo ==
    /\ pc = "main"
    /\ ~quit
    /\ Len(drainQ0) >= 2
    /\ Len(log) > drainLog0
    /\ queue = <<>>

\* C15: with one loop, whenever the loop is about to call Dequeue, or is
\* blocked on the ping send before it, the queue holds an entry: the test
\* '!Empty(xu)' found one and nothing has removed it since.
C15_DequeueNonEmpty ==
    pc \in {"ping", "dequeue"} => queue # <<>>

\* C15 witness: the loop, having waited on the ping send, has taken the only
\* entry of the queue
C15_TookOnlyEntry ==
    /\ usePing
    /\ pc = "switch"
    /\ queue = <<>>
    /\ Len(log) >= 2
    /\ log[Len(log)].op = "deq"
    /\ log[Len(log) - 1].op = "ping"

\* C16: with a ping channel, the entries taken from the head of the queue
\* are never more than the pings the consumer has received, and before the
\* first ping is received nothing is removed from the queue and no error
\* handler and no callback runs.
C16_PingGatesDequeue ==
    usePing =>
       /\ CountOp("deq") <= CountOp("ping")
       /\ CountOp("ping") = 0 =>
             /\ log = <<>>
             /\ \A i \in 1..(Len(arrived) - Len(pending)) :
                   \E q \in DOMAIN queue : queue[q].id = i

\* C16 witness: the loop is blocked on the send of the third ping, two
\* entries taken after the two pings received
C16_BlockedOnSend ==
    /\ usePing
    /\ pc = "ping"
    /\ CountOp("ping") = 2
    /\ CountOp("deq") = 2

\* C17: a loop calls Dequeue on an empty queue, or removes with DequeueAt
\* an entry that is not the one it matched in its snapshot (or finds its
\* index past the end of the queue), only when two loops run on the
\* connection: with one loop none of this happens, and a loop at the call
\* of Dequeue or of DequeueAt finds the queue as its test left it.
C17_RaceNeedsTwoLoops ==
    /\ race # "none" => loops = 2
    /\ loops = 1 =>
          /\ tpc[1] \in {"ping", "dequeue"} => queue # <<>>
          /\ tpc[1] = "remove" =>
                /\ tidx[1] \in 1..Len(queue)
                /\ queue[tidx[1]] = tlaste[1]

\* C17 witness: with two loops, a loop has removed by index an entry other
\* than the one it matched, after the other loop took the head of the queue
C17_WrongIndex ==
    /\ loops = 2
    /\ race = "index"

\* with two loops, a loop has called Dequeue on the queue the other loop
\* emptied
C17_DequeueOnEmpty ==
    /\ loops = 2
    /\ race = "empty"

\* the entries of q that the compression loop for ev would remove
SameTarget(q, ev) ==
    { i \in 1..Len(q) :
         q[i].err = 0 /\ q[i].kind = "MotionNotify" /\ q[i].win = ev.win }

\* C18: a pass of the compression loop that finds no MotionNotify for e's
\* window in the queue ends the loop, and the next step of the loop runs
\* the callbacks of e; every other pass takes exactly one such entry out of
\* the queue and starts over. Under fair scheduling a compression loop that
\* has begun ends with the motion callbacks run (the connection delivers
\* finitely many entries).
C18_CoalescingEnds ==
    /\ [][ (pc = "scan" /\ pc' # "scan") =>
              IF SameTarget(queue, e) = {}
              THEN pc' = "motion" /\ queue' = queue
              ELSE /\ pc' = "sync"
                   /\ Len(queue') = Len(queue) - 1
                   /\ Cardinality(SameTarget(queue', e)) =
                         Cardinality(SameTarget(queue, e)) - 1 ]_vars
    /\ [][ (pc = "motion" /\ pc' # "motion") =>
              /\ pc' = "drain"
              /\ Len(Added) = 1
              /\ Added[1].op = "cb"
              /\ Added[1].ev.id = e.id ]_vars
    /\ (pc = "sync") ~>
          ( /\ pc = "drain"
            /\ log # <<>>
            /\ log[Len(log)].op = "cb"
            /\ log[Len(log)].kind = "MotionNotify" )

\* C18 witness: the motion callbacks have just run after a pass that removed
\* an entry and a pass that found none
C18_DispatchedAfterPasses ==
    /\ pc = "drain"
    /\ Len(log) >= 3
    /\ log[Len(log)].op = "cb"
    /\ log[Len(log)].kind = "MotionNotify"
    /\ log[Len(log) - 1].op = "deqAt"

\* the places of the log after the quit flag was set
AfterQuit ==
    { j \in DOMAIN log :
         \E q \in DOMAIN log : q < j /\ log[q].op = "quit" }

\* the entries taken from the head of the queue after the quit flag was set
TakenAfterQuit ==
    { log[j].ev.id : j \in { k \in AfterQuit : log[k].op = "deq" } }

\* the entries whose error handler or callbacks ran after the quit flag was
\* set
HandledAfterQuit ==
    { log[j].ev.id : j \in { k \in AfterQuit : Handled(log[k]) } }

\* the entries that left the queue before the quit flag was set
GoneBeforeQuit ==
    { log[j].ev.id :
         j \in { k \in DOMAIN log \ AfterQuit :
                    log[k].op \in {"deq", "deqAt"} } }

\* the entries in the queue or not yet fetched
Waiting ==
    { queue[i].id : i \in DOMAIN queue }
       \cup { pending[i].id : i \in DOMAIN pending }

\* C19 as stated: once the quit flag is set, at most one more entry is taken
\* from the head of the queue, handlers run for one entry at most, and every
\* other entry the loop had not removed stays in the queue, with no handler
\* run.
C19_Original ==
    quit =>
       /\ Cardinality(TakenAfterQuit) <= 1
       /\ Cardinality(HandledAfterQuit) <= 1
       /\ \A i \in 1..Len(arrived) :
             \/ i \in GoneBeforeQuit
             \/ i \in TakenAfterQuit
             \/ i \in Waiting

\* C19 (amended): once the quit flag is set, at most one more entry is taken
\* from the head of the queue and handlers run for one entry at most, which
\* is the entry taken, or the entry the loop held when the flag was set;
\* every other entry the loop had not removed stays in the queue with no
\* handler run, or is a MotionNotify for the window of that one entry, with
\* no error, that the compression loop of that entry removed.
C19_AfterQuit ==
    quit =>
       /\ Cardinality(TakenAfterQuit) <= 1
       /\ Cardinality(HandledAfterQuit) <= 1
       /\ TakenAfterQuit # {} => HandledAfterQuit \subseteq TakenAfterQuit
       /\ \A i \in 1..Len(arrived) :
             \/ i \in GoneBeforeQuit
             \/ i \in TakenAfterQuit
             \/ i \in Waiting /\ i \notin HandledAfterQuit
             \/ /\ arrived[i].err = 0
                /\ arrived[i].kind = "MotionNotify"
                /\ i \notin HandledAfterQuit
                /\ \E j \in AfterQuit :
                      /\ log[j].op = "deqAt"
                      /\ log[j].ev.id = i
                      /\ \E k \in DOMAIN log :
                            /\ k < j
                            /\ log[k].op = "deq"
                            /\ \A m \in (k + 1)..(j - 1) : log[m].op # "deq"
                            /\ log[k].ev.kind = "MotionNotify"
                            /\ log[k].ev.win = arrived[i].win

\* C19 witness: after the quit flag was set the loop took one entry from the
\* head, its compression loop removed another, its callbacks ran and the
\* call of processEventQueue returned with an entry left in the queue
C19_OneMoreCoalesced ==
    /\ quit
    /\ pc = "main"
    /\ queue # <<>>
    /\ Cardinality(TakenAfterQuit) = 1
    /\ HandledAfterQuit = TakenAfterQuit
    /\ \E j \in AfterQuit : log[j].op = "deqAt"

\* C20 as stated: once the quit flag is set the loop ends (mainEventLoop
\* returns, or the program ends in Logger.Fatal), wherever the loop was when
\* the flag was set.
C20_Original ==
    quit ~> (pc \in {"done", "fatal"})

\* C20 (amended): with the quit flag set the loop never begins a blocking
\* read, and it ends (mainEventLoop returns, or the program ends in
\* Logger.Fatal) from every position but one: waiting in WaitForEvent on an
\* open connection that has nothing to deliver, where the flag is not
\* looked at.
C20_QuitEnds ==
    /\ [][ (quit /\ pc' = "wait") => pc = "wait" ]_vars
    /\ (quit /\ ~(pc = "wait" /\ pending = <<>> /\ ~closed))
          ~> (pc \in {"done", "fatal"})

\* C20 witness: the quit flag was set while the loop waited in the blocking
\* fetch; an entry arrived and the loop has returned, the entry still queued
\* and nothing dispatched
C20_ReturnedFromWait ==
    /\ quit
    /\ pc = "done"
    /\ queue # <<>>
    /\ log = <<>>

====
